---- MODULE Spec2Model ----
(***************************************************************************)
(* Selection history of an editing view (ModelState) and the lazily        *)
(* attached per-view state of an EditModel, as implemented in              *)
(* src/src/native/core/EditModel.cpp.                                      *)
(***************************************************************************)
EXTENDS Integers, Sequences, FiniteSets, TLC

\* ------------------------------------------------------------------ bounds
\* Transaction indices handed to the ModelState operations are -1..MaxIndex.
MaxIndex == 2

\* At most MaxEntries snapshots are kept on the undo and redo stacks together.
MaxEntries == 2

\* ------------------------------------------------------------------ inputs
StackIndices == 0..MaxIndex
UndoIndices == -1..(MaxIndex - 1)
Selections == {[anchor |-> 10, caret |-> 10], [anchor |-> 10, caret |-> 12]}
TopLines == {0, 2}
ScrolledLines == TopLines \ {0}
Directions == {"undo", "redo"}

\* ------------------------------------------------------------- value types
\* Sci::Line topLine and std::string selection of a value-initialised
\* SelectionWithScroll ("return {}").
EmptySelectionWithScroll == [selection |-> "", topLine |-> 0]

\* Selection::ToString(): the serialised form kept on the stacks.
SelectionToString(sel) ==
    IF sel.anchor = sel.caret
    THEN ToString(sel.anchor)
    ELSE ToString(sel.anchor) \o "-" \o ToString(sel.caret)

\* A SelectionStack (std::map<int, SelectionWithScroll>) is a function whose
\* domain is the set of keys present.
EmptyStack == [k \in {} |-> EmptySelectionWithScroll]

\* std::map::operator[] followed by assignment.
MapAssign(stack, index, value) ==
    [k \in (DOMAIN stack) \cup {index} |-> IF k = index THEN value ELSE stack[k]]

\* std::map::erase(find(index), end()): find yields end() when index is no key,
\* and erase(end(), end()) removes nothing.
EraseFromFind(stack, index) ==
    IF index \in DOMAIN stack
    THEN [k \in {j \in DOMAIN stack : j < index} |-> stack[k]]
    ELSE stack

\* A newly constructed ModelState: both stacks empty and no selection pending
\* (SelectionHistory is declared outside EditModel.cpp; its transient index
\* starts at the same "nothing pending" value ForgetSelectionForUndo sets).
\* historyForRedo's indexCurrent and ssCurrent are never read or written, so
\* historyForRedo is its stack alone.
NewModelState ==
    [historyForUndo |-> [indexCurrent |-> -1, ssCurrent |-> "", stack |-> EmptyStack],
     historyForRedo |-> [stack |-> EmptyStack]]

\* --------------------------------------------------- ModelState operations
\* Mutant: the index is recorded but the selection is not serialised.
RememberSelectionForUndoIndexOnly(ms, index, sel) ==
    [ms EXCEPT !.historyForUndo.indexCurrent = index]

\* Mutant: a snapshot that is pending is not replaced.
RememberSelectionForUndoKeepsPending(ms, index, sel) ==
    IF ms.historyForUndo.indexCurrent >= 0
    THEN ms
    ELSE [ms EXCEPT !.historyForUndo.indexCurrent = index,
                    !.historyForUndo.ssCurrent = SelectionToString(sel)]

RememberSelectionForUndo(ms, index, sel) ==
    [ms EXCEPT !.historyForUndo.indexCurrent = index,
               !.historyForUndo.ssCurrent = SelectionToString(sel)]

ForgetSelectionForUndo(ms) ==
    [ms EXCEPT !.historyForUndo.indexCurrent = -1]

\* Mutant: any index after the transient index commits.
RememberSelectionOntoStackAfter(ms, index, topLine) ==
    IF (ms.historyForUndo.indexCurrent >= 0) /\ (index > ms.historyForUndo.indexCurrent)
    THEN [ms EXCEPT !.historyForUndo.stack =
             MapAssign(@, index, [selection |-> ms.historyForUndo.ssCurrent, topLine |-> topLine])]
    ELSE ms

\* Mutant: every call commits while a selection is pending.
RememberSelectionOntoStackAlways(ms, index, topLine) ==
    IF ms.historyForUndo.indexCurrent >= 0
    THEN [ms EXCEPT !.historyForUndo.stack =
             MapAssign(@, index, [selection |-> ms.historyForUndo.ssCurrent, topLine |-> topLine])]
    ELSE ms

\* Mutant: the test for the "nothing pending" sentinel is missing.
RememberSelectionOntoStackNoSentinel(ms, index, topLine) ==
    IF index = ms.historyForUndo.indexCurrent + 1
    THEN [ms EXCEPT !.historyForUndo.stack =
             MapAssign(@, index, [selection |-> ms.historyForUndo.ssCurrent, topLine |-> topLine])]
    ELSE ms

\* Mutant: a commit uses the pending snapshot up.
RememberSelectionOntoStackOnce(ms, index, topLine) ==
    IF (ms.historyForUndo.indexCurrent >= 0) /\ (index = ms.historyForUndo.indexCurrent + 1)
    THEN [ms EXCEPT !.historyForUndo.stack =
             MapAssign(@, index, [selection |-> ms.historyForUndo.ssCurrent, topLine |-> topLine]),
                    !.historyForUndo.indexCurrent = -1]
    ELSE ms

RememberSelectionOntoStack(ms, index, topLine) ==
    IF (ms.historyForUndo.indexCurrent >= 0) /\ (index = ms.historyForUndo.indexCurrent + 1)
    THEN [ms EXCEPT !.historyForUndo.stack =
             MapAssign(@, index, [selection |-> ms.historyForUndo.ssCurrent, topLine |-> topLine])]
    ELSE ms

\* Mutant: std::map::insert, which keeps an entry that is already there.
RememberSelectionForRedoIfAbsent(ms, index, sel, topLine) ==
    IF index \in DOMAIN ms.historyForRedo.stack
    THEN ms
    ELSE [ms EXCEPT !.historyForRedo.stack =
             MapAssign(@, index, [selection |-> SelectionToString(sel), topLine |-> topLine])]

RememberSelectionForRedoOntoStack(ms, index, sel, topLine) ==
    [ms EXCEPT !.historyForRedo.stack =
        MapAssign(@, index, [selection |-> SelectionToString(sel), topLine |-> topLine])]

\* Mutant: the direction is ignored and the undo stack is read.
SelectionFromStackUndoOnly(ms, index, history) ==
    IF index \in DOMAIN ms.historyForUndo.stack
    THEN ms.historyForUndo.stack[index]
    ELSE EmptySelectionWithScroll

SelectionFromStack(ms, index, history) ==
    LET sh == IF history = "undo" THEN ms.historyForUndo ELSE ms.historyForRedo
    IN  IF index \in DOMAIN sh.stack THEN sh.stack[index] ELSE EmptySelectionWithScroll

\* Mutant: every entry from the one before index is erased.
TruncateUndoFromBefore(ms, index) ==
    [ms EXCEPT !.historyForUndo.stack = EraseFromFind(EraseFromFind(@, index), index - 1),
               !.historyForRedo.stack = EraseFromFind(EraseFromFind(@, index), index - 1)]

\* Mutant: the pending snapshot is forgotten as well.
TruncateUndoForgets(ms, index) ==
    [ms EXCEPT !.historyForUndo.stack = EraseFromFind(@, index),
               !.historyForRedo.stack = EraseFromFind(@, index),
               !.historyForUndo.indexCurrent = -1]

TruncateUndo(ms, index) ==
    [ms EXCEPT !.historyForUndo.stack = EraseFromFind(@, index),
               !.historyForRedo.stack = EraseFromFind(@, index)]

\* ------------------------------------------------------------------- state
VARIABLES
    objects,                     \* the live ModelState objects, by identity
    modelState,                  \* EditModel::modelState: Null or an identity
    viewData,                    \* the Document's registry: view -> entry
    undoSelectionHistoryOption,  \* EditModel::undoSelectionHistoryOption
    lastOp,                      \* the operation called latest
    result,                      \* what the latest SelectionFromStack returned
    pre,                         \* modelState, registry entry and option when lastOp was called
    pending,                     \* history: the latest RememberSelectionForUndo call
    commit,                      \* history: the latest commit of a remembered selection
    coalescing,                  \* history: only commits and reads since that commit
    since,                       \* history: what preceded and followed the pending call
    alive,                       \* the EditModel is constructed and not destroyed
    pdoc,                        \* EditModel::pdoc: Null or the Document
    document,                    \* the Document: reference count, existence, code page
    hostRefs,                    \* the references to the Document its host holds
    bidirectional,               \* EditModel::bidirectional
    teardown,                    \* the Document calls ~EditModel made, in order
    completion,                  \* how ~EditModel ended
    fsA, fsB,                    \* two FontSpecifications
    ordering,                    \* what comparing fsA with fsB returned
    kmap,                        \* KeyMap::kmap
    keyCall,                     \* the latest KeyMap call and what it returned
    range, position,             \* a Range and a position
    rangeResult,                 \* what the Range's member functions returned
    rangeB, rangeC,              \* two more Ranges
    rangeRelation,               \* what Contains(Range) and Overlaps returned
    kA, kB, kC,                  \* three KeyModifiers
    keyOrdering,                 \* what comparing them returned
    styles,                      \* ViewStyle::styles
    fontMap,                     \* ViewStyle::fonts, the cache of realised fonts
    zoomLevel,                   \* ViewStyle::zoomLevel
    metrics,                     \* ViewStyle's aggregate metrics
    refreshCount                 \* the Refresh calls since the styles or zoom changed

state == <<objects, modelState, viewData, undoSelectionHistoryOption>>
observed == <<lastOp, result, pre>>
history == <<pending, commit, coalescing, since>>
lifetime == <<alive, pdoc, document, hostRefs, bidirectional, teardown, completion>>
fonts == <<fsA, fsB, ordering>>
keys == <<kmap, keyCall>>
ranges == <<range, position, rangeResult, rangeB, rangeC, rangeRelation>>
keyOrder == <<kA, kB, kC, keyOrdering>>
viewStyle == <<styles, fontMap, zoomLevel, metrics, refreshCount>>
values == <<ranges, keyOrder, viewStyle>>
elsewhere == <<lifetime, fonts, keys, values>>
vars == <<objects, modelState, viewData, undoSelectionHistoryOption,
          lastOp, result, pre, pending, commit, coalescing, since,
          alive, pdoc, document, hostRefs, bidirectional, teardown, completion,
          fsA, fsB, ordering, kmap, keyCall,
          range, position, rangeResult, rangeB, rangeC, rangeRelation,
          kA, kB, kC, keyOrdering,
          styles, fontMap, zoomLevel, metrics, refreshCount>>

Null == "null"
Foreign == "foreign"
ObjectIds == {"m1", "m2"}
View == "view"
Options == {"Disabled", "Enabled", "Scroll"}

\* Document::GetViewState(view): the entry, or an empty pointer.
GetViewState(view) == viewData[view]

\* Document::SetViewState(view, pVSS); an empty pVSS clears the entry.
SetViewState(view, pVSS) == [viewData EXCEPT ![view] = pVSS]

\* std::dynamic_pointer_cast<ModelState>: empty unless the entry is a ModelState.
DynamicPointerCast(vss) == IF vss \in ObjectIds THEN vss ELSE Null

\* shared_ptr ownership: a ModelState lives while the EditModel or the
\* registry refers to it.
Owned(objs, ms, reg) ==
    [id \in {x \in DOMAIN objs : x = ms \/ \E v \in DOMAIN reg : x = reg[v]} |-> objs[id]]

NewId == CHOOSE id \in ObjectIds : id \notin DOMAIN objects

Entries(ms) ==
    Cardinality(DOMAIN ms.historyForUndo.stack) + Cardinality(DOMAIN ms.historyForRedo.stack)

Observe(op, value) ==
    /\ lastOp' = op
    /\ result' = value
    /\ pre' = [modelState |-> modelState, viewData |-> viewData[View],
               option |-> undoSelectionHistoryOption]

\* ----------------------------------------------------- ModelState calls
CallRememberSelectionForUndo(m, index, sel) ==
    /\ m \in DOMAIN objects
    /\ objects' = [objects EXCEPT ![m] = RememberSelectionForUndo(@, index, sel)]
    /\ Observe("RememberSelectionForUndo", EmptySelectionWithScroll)
    /\ UNCHANGED <<modelState, viewData, undoSelectionHistoryOption>>

CallForgetSelectionForUndo(m) ==
    /\ m \in DOMAIN objects
    /\ objects' = [objects EXCEPT ![m] = ForgetSelectionForUndo(@)]
    /\ Observe("ForgetSelectionForUndo", EmptySelectionWithScroll)
    /\ UNCHANGED <<modelState, viewData, undoSelectionHistoryOption>>

CallRememberSelectionOntoStack(m, index, topLine) ==
    /\ m \in DOMAIN objects
    /\ Entries(RememberSelectionOntoStack(objects[m], index, topLine)) <= MaxEntries
    /\ objects' = [objects EXCEPT ![m] = RememberSelectionOntoStack(@, index, topLine)]
    /\ Observe("RememberSelectionOntoStack", EmptySelectionWithScroll)
    /\ UNCHANGED <<modelState, viewData, undoSelectionHistoryOption>>

CallRememberSelectionForRedoOntoStack(m, index, sel, topLine) ==
    /\ m \in DOMAIN objects
    /\ Entries(RememberSelectionForRedoOntoStack(objects[m], index, sel, topLine)) <= MaxEntries
    /\ objects' = [objects EXCEPT ![m] = RememberSelectionForRedoOntoStack(@, index, sel, topLine)]
    /\ Observe("RememberSelectionForRedoOntoStack", EmptySelectionWithScroll)
    /\ UNCHANGED <<modelState, viewData, undoSelectionHistoryOption>>

CallSelectionFromStack(m, index, direction) ==
    /\ m \in DOMAIN objects
    /\ Observe("SelectionFromStack", SelectionFromStack(objects[m], index, direction))
    /\ UNCHANGED <<objects, modelState, viewData, undoSelectionHistoryOption>>

CallTruncateUndo(m, index) ==
    /\ m \in DOMAIN objects
    /\ objects' = [objects EXCEPT ![m] = TruncateUndo(@, index)]
    /\ Observe("TruncateUndo", EmptySelectionWithScroll)
    /\ UNCHANGED <<modelState, viewData, undoSelectionHistoryOption>>

\* ------------------------------------------------------ EditModel calls
\* Mutant: the registry is not consulted; a ModelState is always created.
EnsureModelStateAlwaysCreates ==
    /\ IF (modelState = Null) /\ (undoSelectionHistoryOption # "Disabled")
       THEN /\ modelState' = NewId
            /\ viewData' = SetViewState(View, NewId)
            /\ objects' = Owned([id \in (DOMAIN objects) \cup {NewId} |->
                                   IF id = NewId THEN NewModelState ELSE objects[id]],
                                modelState', viewData')
       ELSE UNCHANGED <<objects, modelState, viewData>>
    /\ Observe("EnsureModelState", EmptySelectionWithScroll)
    /\ UNCHANGED undoSelectionHistoryOption

\* Mutant: the history option is not tested.
EnsureModelStateIgnoresOption ==
    /\ IF modelState = Null
       THEN IF GetViewState(View) # Null
            THEN /\ modelState' = DynamicPointerCast(GetViewState(View))
                 /\ UNCHANGED <<objects, viewData>>
            ELSE /\ modelState' = NewId
                 /\ viewData' = SetViewState(View, NewId)
                 /\ objects' = Owned([id \in (DOMAIN objects) \cup {NewId} |->
                                        IF id = NewId THEN NewModelState ELSE objects[id]],
                                     modelState', viewData')
       ELSE UNCHANGED <<objects, modelState, viewData>>
    /\ Observe("EnsureModelState", EmptySelectionWithScroll)
    /\ UNCHANGED undoSelectionHistoryOption

\* Mutant: the ModelState created is not registered.
EnsureModelStateNotRegistered ==
    /\ IF (modelState = Null) /\ (undoSelectionHistoryOption # "Disabled")
       THEN IF GetViewState(View) # Null
            THEN /\ modelState' = DynamicPointerCast(GetViewState(View))
                 /\ UNCHANGED <<objects, viewData>>
            ELSE /\ modelState' = NewId
                 /\ UNCHANGED viewData
                 /\ objects' = Owned([id \in (DOMAIN objects) \cup {NewId} |->
                                        IF id = NewId THEN NewModelState ELSE objects[id]],
                                     modelState', viewData')
       ELSE UNCHANGED <<objects, modelState, viewData>>
    /\ Observe("EnsureModelState", EmptySelectionWithScroll)
    /\ UNCHANGED undoSelectionHistoryOption

EnsureModelState ==
    /\ IF (modelState = Null) /\ (undoSelectionHistoryOption # "Disabled")
       THEN IF GetViewState(View) # Null
            THEN /\ modelState' = DynamicPointerCast(GetViewState(View))
                 /\ UNCHANGED <<objects, viewData>>
            ELSE /\ modelState' = NewId
                 /\ viewData' = SetViewState(View, NewId)
                 /\ objects' = Owned([id \in (DOMAIN objects) \cup {NewId} |->
                                        IF id = NewId THEN NewModelState ELSE objects[id]],
                                     modelState', viewData')
       ELSE UNCHANGED <<objects, modelState, viewData>>
    /\ Observe("EnsureModelState", EmptySelectionWithScroll)
    /\ UNCHANGED undoSelectionHistoryOption

\* Mutant: the local reference is dropped but the entry stays registered.
ChangeUndoSelectionHistoryKeepsEntry(undoSelectionHistoryOptionNew) ==
    /\ undoSelectionHistoryOption' = undoSelectionHistoryOptionNew
    /\ IF undoSelectionHistoryOptionNew = "Disabled"
       THEN /\ modelState' = Null
            /\ UNCHANGED <<objects, viewData>>
       ELSE UNCHANGED <<objects, modelState, viewData>>
    /\ Observe("ChangeUndoSelectionHistory", EmptySelectionWithScroll)

\* Mutant: only the option is stored.
ChangeUndoSelectionHistoryOptionOnly(undoSelectionHistoryOptionNew) ==
    /\ undoSelectionHistoryOption' = undoSelectionHistoryOptionNew
    /\ UNCHANGED <<objects, modelState, viewData>>
    /\ Observe("ChangeUndoSelectionHistory", EmptySelectionWithScroll)

\* Mutant: disabling the history empties the whole registry.
ChangeUndoSelectionHistoryErasesAll(undoSelectionHistoryOptionNew) ==
    /\ undoSelectionHistoryOption' = undoSelectionHistoryOptionNew
    /\ IF undoSelectionHistoryOptionNew = "Disabled"
       THEN /\ modelState' = Null
            /\ viewData' = [v \in DOMAIN viewData |-> Null]
            /\ objects' = Owned(objects, modelState', viewData')
       ELSE UNCHANGED <<objects, modelState, viewData>>
    /\ Observe("ChangeUndoSelectionHistory", EmptySelectionWithScroll)

\* Mutant: the ModelState is dropped whenever the option changes.
ChangeUndoSelectionHistoryResetsOnChange(undoSelectionHistoryOptionNew) ==
    /\ undoSelectionHistoryOption' = undoSelectionHistoryOptionNew
    /\ IF undoSelectionHistoryOptionNew # undoSelectionHistoryOption
       THEN /\ modelState' = Null
            /\ viewData' = SetViewState(View, Null)
            /\ objects' = Owned(objects, modelState', viewData')
       ELSE UNCHANGED <<objects, modelState, viewData>>
    /\ Observe("ChangeUndoSelectionHistory", EmptySelectionWithScroll)

ChangeUndoSelectionHistory(undoSelectionHistoryOptionNew) ==
    /\ undoSelectionHistoryOption' = undoSelectionHistoryOptionNew
    /\ IF undoSelectionHistoryOptionNew = "Disabled"
       THEN /\ modelState' = Null
            /\ viewData' = SetViewState(View, Null)
            /\ objects' = Owned(objects, modelState', viewData')
       ELSE UNCHANGED <<objects, modelState, viewData>>
    /\ Observe("ChangeUndoSelectionHistory", EmptySelectionWithScroll)

\* Another user of the Document writes this view's registry entry: it clears
\* it or stores a per-view state of another kind.
HostSetViewState(pVSS) ==
    /\ viewData' = SetViewState(View, pVSS)
    /\ objects' = Owned(objects, modelState, viewData')
    /\ Observe("SetViewState", EmptySelectionWithScroll)
    /\ UNCHANGED <<modelState, undoSelectionHistoryOption>>

\* Another user of the Document registers a ModelState for a view that has
\* none; it is then reachable through GetViewState.
HostRegisterModelState ==
    /\ DOMAIN objects = {}
    /\ objects' = [id \in {NewId} |-> NewModelState]
    /\ viewData' = SetViewState(View, NewId)
    /\ Observe("RegisterModelState", EmptySelectionWithScroll)
    /\ UNCHANGED <<modelState, undoSelectionHistoryOption>>

\* A second EditModel attached to the same Document, registered under its own
\* identity, and the ModelState it creates.
OtherView == "otherView"
OtherId == "m3"
Views == {View, OtherView}

\* EditModel::EnsureModelState run by the second EditModel with history enabled.
OtherEnsureModelState ==
    /\ viewData[OtherView] = Null
    /\ viewData' = SetViewState(OtherView, OtherId)
    /\ objects' = [id \in (DOMAIN objects) \cup {OtherId} |->
                     IF id = OtherId THEN NewModelState ELSE objects[id]]
    /\ Observe("OtherEnsureModelState", EmptySelectionWithScroll)
    /\ UNCHANGED <<modelState, undoSelectionHistoryOption>>

\* EditModel::ChangeUndoSelectionHistory(Disabled) run by the second EditModel.
OtherDisableHistory ==
    /\ viewData[OtherView] # Null
    /\ viewData' = SetViewState(OtherView, Null)
    /\ objects' = Owned(objects, modelState, viewData')
    /\ Observe("OtherChangeUndoSelectionHistory", EmptySelectionWithScroll)
    /\ UNCHANGED <<modelState, undoSelectionHistoryOption>>

\* ------------------------------------------------- EditModel's lifetime
MaxRefs == 2
TheDocument == "document"
Bidirectionals == {"Disabled", "L2R", "R2L"}
CpUtf8 == 65001
CodePages == {0, 932, CpUtf8}

\* Document::Document: no reference yet, the default code page.
NewDocument == [refCount |-> 0, live |-> TRUE, dbcsCodePage |-> 0]

\* Document::AddRef.
AddRef(doc) == [doc EXCEPT !.refCount = @ + 1]

\* Document::Release: the Document is destroyed with its last reference.
Release(doc) ==
    [doc EXCEPT !.refCount = @ - 1, !.live = (doc.refCount - 1 > 0)]

\* Mutant: the new Document is not referenced.
EditModelDocumentNoAddRef == NewDocument

\* EditModel::EditModel: pdoc = new Document; pdoc->AddRef().
EditModelDocument == AddRef(NewDocument)

\* Mutant: no handler; what the body throws leaves the destructor.
CatchNothing(exception) == IF exception THEN "exception" ELSE "normal"

\* catch (...) { }: whatever the body of ~EditModel throws is ignored.
CatchAll(exception) == "normal"

\* Mutant: the reference is released before the entry is erased.
TeardownCallsReleaseFirst(failSetViewState, failRelease) ==
    <<[call |-> "Release", threw |-> failRelease]>> \o
    (IF failRelease THEN <<>> ELSE <<[call |-> "SetViewState", threw |-> failSetViewState]>>)

\* The body of the try block: the calls made, in order, up to the first throw.
TeardownCalls(failSetViewState, failRelease) ==
    <<[call |-> "SetViewState", threw |-> failSetViewState]>> \o
    (IF failSetViewState THEN <<>> ELSE <<[call |-> "Release", threw |-> failRelease]>>)

Succeeded(calls, name) == \E i \in 1..Len(calls) : calls[i].call = name /\ ~calls[i].threw
Threw(calls) == \E i \in 1..Len(calls) : calls[i].threw

\* EditModel::~EditModel. A call that throws has had no effect, except that a
\* throwing SetViewState may or may not have erased the entry. The members,
\* modelState among them, are destroyed after the body.
Destroy(failSetViewState, entryErased, failRelease) ==
    /\ alive
    /\ LET calls == TeardownCalls(failSetViewState, failRelease)
           erased == Succeeded(calls, "SetViewState") \/ (failSetViewState /\ entryErased)
           doc == IF Succeeded(calls, "Release") THEN Release(document) ELSE document
       IN  /\ teardown' = calls
           /\ completion' = CatchAll(Threw(calls))
           /\ document' = doc
           /\ viewData' = IF erased \/ ~doc.live THEN SetViewState(View, Null) ELSE viewData
    /\ pdoc' = Null
    /\ modelState' = Null
    /\ objects' = Owned(objects, modelState', viewData')
    /\ alive' = FALSE
    /\ Observe("~EditModel", EmptySelectionWithScroll)
    /\ UNCHANGED <<undoSelectionHistoryOption, hostRefs, bidirectional>>

\* The host takes a reference to the Document.
HostAddRef ==
    /\ document.live
    /\ hostRefs < MaxRefs
    /\ document' = AddRef(document)
    /\ hostRefs' = hostRefs + 1
    /\ Observe("AddRef", EmptySelectionWithScroll)
    /\ UNCHANGED <<state, alive, pdoc, bidirectional, teardown, completion>>

\* The host releases a reference it holds.
HostRelease ==
    /\ document.live
    /\ hostRefs > 0
    /\ document' = Release(document)
    /\ hostRefs' = hostRefs - 1
    /\ viewData' = IF document'.live THEN viewData ELSE SetViewState(View, Null)
    /\ objects' = Owned(objects, modelState, viewData')
    /\ Observe("Release", EmptySelectionWithScroll)
    /\ UNCHANGED <<modelState, undoSelectionHistoryOption, alive, pdoc, bidirectional,
                   teardown, completion>>

\* The view's owner sets the bidirectional mode.
SetBidirectional(mode) ==
    /\ alive
    /\ bidirectional' = mode
    /\ Observe("SetBidirectional", EmptySelectionWithScroll)
    /\ UNCHANGED <<state, alive, pdoc, document, hostRefs, teardown, completion>>

\* Document::SetDBCSCodePage through the EditModel's reference.
SetDBCSCodePage(codePage) ==
    /\ alive
    /\ document' = [document EXCEPT !.dbcsCodePage = codePage]
    /\ Observe("SetDBCSCodePage", EmptySelectionWithScroll)
    /\ UNCHANGED <<state, alive, pdoc, hostRefs, bidirectional, teardown, completion>>

\* Mutant: the document's code page is not consulted.
BidirectionalEnabledAnyCodePage == bidirectional # "Disabled"

\* EditModel::BidirectionalEnabled.
BidirectionalEnabled ==
    (bidirectional # "Disabled") /\ (CpUtf8 = document.dbcsCodePage)

\* EditModel::EditModel.
InitLifetime ==
    /\ alive = TRUE
    /\ pdoc = TheDocument
    /\ document = EditModelDocument
    /\ hostRefs = 0
    /\ bidirectional = "Disabled"
    /\ teardown = <<>>
    /\ completion = "none"

\* ----------------------------------------------------- FontSpecification
\* fontName is a pointer to a name interned by the ViewStyle, or null (0).
FontNames == {0, 1}
Sizes == {1000, 1200}
Weights == {400, 700}
Stretches == {5, 7}
CharacterSets == {0, 1}
FontQualities == {0, 1}

FontSpecifications ==
    [fontName : FontNames, size : Sizes, weight : Weights, stretch : Stretches,
     italic : BOOLEAN, characterSet : CharacterSets, extraFontFlag : FontQualities,
     checkMonospaced : BOOLEAN]

\* FontSpecification::operator==
FontEqual(a, b) ==
    /\ a.fontName = b.fontName
    /\ a.weight = b.weight
    /\ a.italic = b.italic
    /\ a.size = b.size
    /\ a.stretch = b.stretch
    /\ a.characterSet = b.characterSet
    /\ a.extraFontFlag = b.extraFontFlag
    /\ a.checkMonospaced = b.checkMonospaced

\* bool < bool
BoolLess(x, y) == ~x /\ y

\* Mutant: the size is compared before the weight and the italic flag.
FontLessSizeFirst(a, b) ==
    IF a.fontName # b.fontName THEN a.fontName < b.fontName
    ELSE IF a.size # b.size THEN a.size < b.size
    ELSE IF a.weight # b.weight THEN a.weight < b.weight
    ELSE IF a.italic # b.italic THEN ~a.italic
    ELSE IF a.stretch # b.stretch THEN a.stretch < b.stretch
    ELSE IF a.characterSet # b.characterSet THEN a.characterSet < b.characterSet
    ELSE IF a.extraFontFlag # b.extraFontFlag THEN a.extraFontFlag < b.extraFontFlag
    ELSE IF a.checkMonospaced # b.checkMonospaced
         THEN BoolLess(a.checkMonospaced, b.checkMonospaced)
    ELSE FALSE

\* Mutant: specifications that differ in the italic flag are each less than
\* the other.
FontLessItalicEitherWay(a, b) ==
    IF a.fontName # b.fontName THEN a.fontName < b.fontName
    ELSE IF a.weight # b.weight THEN a.weight < b.weight
    ELSE IF a.italic # b.italic THEN TRUE
    ELSE IF a.size # b.size THEN a.size < b.size
    ELSE IF a.stretch # b.stretch THEN a.stretch < b.stretch
    ELSE IF a.characterSet # b.characterSet THEN a.characterSet < b.characterSet
    ELSE IF a.extraFontFlag # b.extraFontFlag THEN a.extraFontFlag < b.extraFontFlag
    ELSE IF a.checkMonospaced # b.checkMonospaced
         THEN BoolLess(a.checkMonospaced, b.checkMonospaced)
    ELSE FALSE

\* Mutant: the size is not compared.
FontLessIgnoresSize(a, b) ==
    IF a.fontName # b.fontName THEN a.fontName < b.fontName
    ELSE IF a.weight # b.weight THEN a.weight < b.weight
    ELSE IF a.italic # b.italic THEN ~a.italic
    ELSE IF a.stretch # b.stretch THEN a.stretch < b.stretch
    ELSE IF a.characterSet # b.characterSet THEN a.characterSet < b.characterSet
    ELSE IF a.extraFontFlag # b.extraFontFlag THEN a.extraFontFlag < b.extraFontFlag
    ELSE IF a.checkMonospaced # b.checkMonospaced
         THEN BoolLess(a.checkMonospaced, b.checkMonospaced)
    ELSE FALSE

\* FontSpecification::operator<
FontLess(a, b) ==
    IF a.fontName # b.fontName THEN a.fontName < b.fontName
    ELSE IF a.weight # b.weight THEN a.weight < b.weight
    ELSE IF a.italic # b.italic THEN ~a.italic
    ELSE IF a.size # b.size THEN a.size < b.size
    ELSE IF a.stretch # b.stretch THEN a.stretch < b.stretch
    ELSE IF a.characterSet # b.characterSet THEN a.characterSet < b.characterSet
    ELSE IF a.extraFontFlag # b.extraFontFlag THEN a.extraFontFlag < b.extraFontFlag
    ELSE IF a.checkMonospaced # b.checkMonospaced
         THEN BoolLess(a.checkMonospaced, b.checkMonospaced)
    ELSE FALSE

NotCompared == [compared |-> FALSE, less |-> FALSE, equal |-> FALSE, greater |-> FALSE]

\* fsA < fsB, fsA == fsB and fsB < fsA are evaluated.
CompareFonts ==
    /\ ~ordering.compared
    /\ ordering' = [compared |-> TRUE, less |-> FontLess(fsA, fsB),
                    equal |-> FontEqual(fsA, fsB), greater |-> FontLess(fsB, fsA)]
    /\ UNCHANGED <<fsA, fsB>>

\* FontSpecification::FontSpecification()
DefaultFontSpecification ==
    [fontName |-> 0, size |-> 1000, weight |-> 400, stretch |-> 5, italic |-> FALSE,
     characterSet |-> 1, extraFontFlag |-> 0, checkMonospaced |-> FALSE]

InitFonts ==
    /\ fsA = DefaultFontSpecification
    /\ fsB = DefaultFontSpecification
    /\ ordering = NotCompared

\* ----------------------------------------------------------------- KeyMap
KeyCodes == {65, 66}
KeyMods == {0, 1, 2}
Messages == {2013, 2176}

\* Mutant: the modifiers are not compared.
KeyModifiersLessKeyOnly(a, b) == a.key < b.key

\* Mutant: the modifiers are compared first.
KeyModifiersLessModifiersFirst(a, b) ==
    IF a.modifiers = b.modifiers THEN a.key < b.key ELSE a.modifiers < b.modifiers

\* KeyModifiers::operator<
KeyModifiersLess(a, b) ==
    IF a.key = b.key THEN a.modifiers < b.modifiers ELSE a.key < b.key

\* std::map::find: the entries whose key is equivalent under operator<.
MapFind(map, k) ==
    {e \in map : ~KeyModifiersLess(e.k, k) /\ ~KeyModifiersLess(k, e.k)}

\* KeyMap::Find: 0 when there is no entry.
Find(map, key, modifiers) ==
    LET found == MapFind(map, [key |-> key, modifiers |-> modifiers])
    IN  IF found = {} THEN 0 ELSE (CHOOSE e \in found : TRUE).msg

\* KeyMap::AssignCmdKey: kmap[KeyModifiers(key, modifiers)] = msg.
AssignCmdKey(map, key, modifiers, msg) ==
    LET k == [key |-> key, modifiers |-> modifiers]
        found == MapFind(map, k)
    IN  IF found = {}
        THEN map \cup {[k |-> k, msg |-> msg]}
        ELSE (map \ found) \cup {[k |-> e.k, msg |-> msg] : e \in found}

\* KeyMap::Clear
Clear(map) == {}

\* KeyMap::MapDefault, the bindings the constructor assigns.
MapDefault == <<[key |-> 65, modifiers |-> 2, msg |-> 2013]>>

RECURSIVE AssignAll(_, _)
AssignAll(map, bindings) ==
    IF bindings = <<>> THEN map
    ELSE AssignAll(AssignCmdKey(map, Head(bindings).key, Head(bindings).modifiers,
                                Head(bindings).msg),
                   Tail(bindings))

CallClear ==
    /\ kmap' = Clear(kmap)
    /\ keyCall' = [op |-> "Clear", key |-> 0, modifiers |-> 0, msg |-> 0, returned |-> 0]

CallAssignCmdKey(key, modifiers, msg) ==
    /\ kmap' = AssignCmdKey(kmap, key, modifiers, msg)
    /\ keyCall' = [op |-> "AssignCmdKey", key |-> key, modifiers |-> modifiers,
                   msg |-> msg, returned |-> 0]

CallFind(key, modifiers) ==
    /\ keyCall' = [op |-> "Find", key |-> key, modifiers |-> modifiers, msg |-> 0,
                   returned |-> Find(kmap, key, modifiers)]
    /\ UNCHANGED kmap

\* KeyMap::KeyMap
InitKeys ==
    /\ kmap = AssignAll({}, MapDefault)
    /\ keyCall = [op |-> "KeyMap", key |-> 0, modifiers |-> 0, msg |-> 0, returned |-> 0]

\* ------------------------------------------------------------------ Range
MaxPosition == 3
Positions == 0..MaxPosition
Ranges == [start : Positions, end : Positions]

\* Range::Empty
Empty(r) == r.start = r.end

\* Mutant: the signed difference.
LengthSigned(r) == r.end - r.start

\* Range::Length
Length(r) == IF r.start <= r.end THEN r.end - r.start ELSE r.start - r.end

\* Range::First
First(r) == IF r.start <= r.end THEN r.start ELSE r.end

\* Range::Last
Last(r) == IF r.start > r.end THEN r.start ELSE r.end

\* Range::Contains(Sci::Position)
Contains(r, pos) ==
    IF r.start < r.end
    THEN pos >= r.start /\ pos <= r.end
    ELSE pos <= r.start /\ pos >= r.end

\* Mutant: the end of a reversed range is not excluded.
ContainsCharacterReversedInclusive(r, pos) ==
    IF r.start < r.end
    THEN pos >= r.start /\ pos < r.end
    ELSE pos <= r.start /\ pos >= r.end

\* Range::ContainsCharacter
ContainsCharacter(r, pos) ==
    IF r.start < r.end
    THEN pos >= r.start /\ pos < r.end
    ELSE pos < r.start /\ pos >= r.end

NotCalled ==
    [called |-> FALSE, empty |-> FALSE, length |-> 0, first |-> 0, last |-> 0,
     contains |-> FALSE, containsCharacter |-> FALSE]

\* The member functions of range are called, with position where they take one.
CallRange ==
    /\ ~rangeResult.called
    /\ rangeResult' = [called |-> TRUE, empty |-> Empty(range), length |-> Length(range),
                       first |-> First(range), last |-> Last(range),
                       contains |-> Contains(range, position),
                       containsCharacter |-> ContainsCharacter(range, position)]
    /\ UNCHANGED <<range, position, rangeB, rangeC, rangeRelation>>

\* Range::Contains(Range)
ContainsRange(r, other) == Contains(r, other.start) /\ Contains(r, other.end)

\* Mutant: only the other Range's ends are looked for in this one.
OverlapsOneSided(r, other) == Contains(r, other.start) \/ Contains(r, other.end)

\* Range::Overlaps
Overlaps(r, other) ==
    \/ Contains(r, other.start)
    \/ Contains(r, other.end)
    \/ Contains(other, r.start)
    \/ Contains(other, r.end)

NotRelated ==
    [called |-> FALSE, overlapsAB |-> FALSE, overlapsBA |-> FALSE,
     containsAA |-> FALSE, containsAB |-> FALSE, containsBC |-> FALSE,
     containsAC |-> FALSE]

\* Contains(Range) and Overlaps are called on range, rangeB and rangeC.
CallRelations ==
    /\ ~rangeRelation.called
    /\ rangeRelation' = [called |-> TRUE,
                         overlapsAB |-> Overlaps(range, rangeB),
                         overlapsBA |-> Overlaps(rangeB, range),
                         containsAA |-> ContainsRange(range, range),
                         containsAB |-> ContainsRange(range, rangeB),
                         containsBC |-> ContainsRange(rangeB, rangeC),
                         containsAC |-> ContainsRange(range, rangeC)]
    /\ UNCHANGED <<range, position, rangeResult, rangeB, rangeC>>

\* Range::Range()
InitRanges ==
    /\ range = [start |-> 0, end |-> 0]
    /\ position = 0
    /\ rangeResult = NotCalled
    /\ rangeB = [start |-> 0, end |-> 0]
    /\ rangeC = [start |-> 0, end |-> 0]
    /\ rangeRelation = NotRelated

\* ----------------------------------------------------------- KeyModifiers
KeyModifiersSet == [key : KeyCodes, modifiers : KeyMods]

NotOrdered == [compared |-> FALSE, ab |-> FALSE, ba |-> FALSE, bc |-> FALSE, ac |-> FALSE]

\* kA < kB, kB < kA, kB < kC and kA < kC are evaluated.
CompareKeys ==
    /\ ~keyOrdering.compared
    /\ keyOrdering' = [compared |-> TRUE, ab |-> KeyModifiersLess(kA, kB),
                       ba |-> KeyModifiersLess(kB, kA), bc |-> KeyModifiersLess(kB, kC),
                       ac |-> KeyModifiersLess(kA, kC)]
    /\ UNCHANGED <<kA, kB, kC>>

\* KeyModifiers::KeyModifiers()
InitKeyOrder ==
    /\ kA = [key |-> 0, modifiers |-> 0]
    /\ kB = [key |-> 0, modifiers |-> 0]
    /\ kC = [key |-> 0, modifiers |-> 0]
    /\ keyOrdering = NotOrdered

\* ---------------------------------------------------------------- ViewStyle
MaxRefresh == 2
StyleIndices == {1, 2}
DefaultStyleIndex == 1
ZoomLevels == {0, 2}
FontSizeMultiplier == 100

\* The fonts the styles are given: two sizes, upright and italic.
StyleFonts ==
    {[DefaultFontSpecification EXCEPT !.size = sz, !.italic = it] :
       sz \in Sizes, it \in BOOLEAN}

\* FontMeasurements' member initialisers.
DefaultFontMeasurements ==
    [ascent |-> 1, descent |-> 1, aveCharWidth |-> 1, sizeZoomed |-> 2]

\* Style::Style
DefaultStyle ==
    [fs |-> DefaultFontSpecification, measurements |-> DefaultFontMeasurements,
     visible |-> TRUE, changeable |-> TRUE]

\* Mutant: only a style that is not changeable is protected.
IsProtectedWhenNotChangeable(style) == ~style.changeable

\* Style::IsProtected
IsProtected(style) == ~(style.changeable /\ style.visible)

\* Style::Copy, the measurements.
Copy(style, fm) == [style EXCEPT !.measurements = fm]

\* FontRealised::Realise: the font at its zoomed size, as the surface measures it.
Realise(fs, zoom) ==
    LET sizeZoomed == fs.size + zoom * FontSizeMultiplier
    IN  [ascent |-> sizeZoomed \div 100, descent |-> sizeZoomed \div 400,
         aveCharWidth |-> (sizeZoomed \div 200) + (IF fs.italic THEN 1 ELSE 0),
         sizeZoomed |-> sizeZoomed]

\* FontMap::find: the positions whose key is equivalent under operator<.
FontMapFind(map, fs) ==
    {i \in 1..Len(map) : ~FontLess(map[i].fs, fs) /\ ~FontLess(fs, map[i].fs)}

\* The position a new key takes in the ordered map.
FontMapPosition(map, fs) ==
    1 + Cardinality({i \in 1..Len(map) : ~FontLess(fs, map[i].fs)})

\* ViewStyle::CreateAndAddFont: a new entry unless the cache has the key.
CreateAndAddFont(map, fs) ==
    IF FontMapFind(map, fs) # {}
    THEN map
    ELSE LET at == FontMapPosition(map, fs)
         IN  SubSeq(map, 1, at - 1)
               \o <<[fs |-> fs, measurements |-> DefaultFontMeasurements]>>
               \o SubSeq(map, at, Len(map))

RECURSIVE CreateAndAddFonts(_, _, _)
CreateAndAddFonts(map, sts, i) ==
    IF i > Len(sts) THEN map
    ELSE CreateAndAddFonts(CreateAndAddFont(map, sts[i].fs), sts, i + 1)

\* ViewStyle::Find: the realised font of a key.
FindRealised(map, fs) == map[CHOOSE i \in FontMapFind(map, fs) : TRUE]

Maximum(set) == CHOOSE x \in set : \A y \in set : y <= x

\* ViewStyle::Refresh: every style's font is looked up in the cache or
\* created, the fonts are realised at the zoom level, each style takes its
\* font's measurements, and the aggregate metrics are recomputed.
Refresh ==
    /\ refreshCount < MaxRefresh
    /\ LET created == CreateAndAddFonts(fontMap, styles, 1)
           realised == [i \in 1..Len(created) |->
                          [created[i] EXCEPT !.measurements = Realise(created[i].fs, zoomLevel)]]
           copied == [i \in 1..Len(styles) |->
                        Copy(styles[i], FindRealised(realised, styles[i].fs).measurements)]
       IN  /\ fontMap' = realised
           /\ styles' = copied
           /\ metrics' = [maxAscent |-> Maximum({copied[i].measurements.ascent : i \in 1..Len(copied)}),
                          maxDescent |-> Maximum({copied[i].measurements.descent : i \in 1..Len(copied)}),
                          aveCharWidth |-> copied[DefaultStyleIndex].measurements.aveCharWidth]
    /\ refreshCount' = refreshCount + 1
    /\ UNCHANGED zoomLevel

\* The font of a style is set.
SetStyleFont(index, fs) ==
    /\ styles' = [styles EXCEPT ![index].fs = fs]
    /\ refreshCount' = 0
    /\ UNCHANGED <<fontMap, zoomLevel, metrics>>

\* The visible and changeable attributes of a style are set.
SetStyleProtection(index, visible, changeable) ==
    /\ styles' = [styles EXCEPT ![index].visible = visible, ![index].changeable = changeable]
    /\ refreshCount' = 0
    /\ UNCHANGED <<fontMap, zoomLevel, metrics>>

\* The zoom level is set.
SetZoom(zoom) ==
    /\ zoomLevel' = zoom
    /\ refreshCount' = 0
    /\ UNCHANGED <<styles, fontMap, metrics>>

\* ViewStyle::ViewStyle: default styles, no realised font.
InitView ==
    /\ styles = [i \in StyleIndices |-> DefaultStyle]
    /\ fontMap = <<>>
    /\ zoomLevel = 0
    /\ metrics = [maxAscent |-> 1, maxDescent |-> 1, aveCharWidth |-> 1]
    /\ refreshCount = 0

\* --------------------------------------------------------- call history
NoPending == [kind |-> "none", index |-> -1, sel |-> [anchor |-> 0, caret |-> 0]]
NoCommit == [kind |-> "none", index |-> -1, sel |-> [anchor |-> 0, caret |-> 0], topLine |-> 0]

NoteRemember(index, sel) ==
    /\ pending' = [kind |-> "remembered", index |-> index, sel |-> sel]
    /\ coalescing' = "no"
    /\ UNCHANGED commit

NoteForget ==
    /\ pending' = [NoPending EXCEPT !.kind = "forgotten"]
    /\ coalescing' = "no"
    /\ UNCHANGED commit

\* A commit in the sense of the selection history's contract: the index
\* follows the index of the pending snapshot, which is a transaction index.
\* coalescing is "committed" after the commit and "later" once a further
\* RememberSelectionOntoStack call has followed it.
NoteOntoStack(index, topLine) ==
    LET commits == /\ pending.kind = "remembered"
                   /\ pending.index >= 0
                   /\ index = pending.index + 1
    IN  /\ commit' = IF commits
                     THEN [kind |-> "committed", index |-> index,
                           sel |-> pending.sel, topLine |-> topLine]
                     ELSE commit
        /\ coalescing' = IF coalescing # "no" THEN "later"
                         ELSE IF commits THEN "committed" ELSE "no"
        /\ UNCHANGED pending

NoteTruncate(index) ==
    /\ commit' = IF commit.kind = "committed" /\ index <= commit.index THEN NoCommit ELSE commit
    /\ coalescing' = "no"
    /\ UNCHANGED pending

\* since: the call RememberSelectionForUndo replaced, the matching commits
\* that followed the pending call (two stands for two or more), and whether
\* a TruncateUndo came between the pending call and those commits.
Nothing == [superseded |-> NoPending, commits |-> 0, truncated |-> FALSE]

SinceRemember ==
    since' = [superseded |-> IF pending.kind = "remembered" THEN pending ELSE NoPending,
              commits |-> 0, truncated |-> FALSE]

SinceForget == since' = Nothing

SinceOntoStack(index) ==
    since' = IF pending.kind = "remembered" /\ pending.index >= 0 /\ index = pending.index + 1
             THEN [since EXCEPT !.commits = IF @ = 0 THEN 1 ELSE 2]
             ELSE since

SinceTruncate == since' = [since EXCEPT !.commits = 0, !.truncated = TRUE]

\* ------------------------------------------------------- specifications
\* After construction: no ModelState, an empty registry; the option's member
\* initialiser is any of its values.
InitEditModel ==
    /\ objects = [id \in {} |-> NewModelState]
    /\ modelState = Null
    /\ viewData = [v \in {View} |-> Null]
    /\ undoSelectionHistoryOption \in Options
    /\ lastOp = "none"
    /\ result = EmptySelectionWithScroll
    /\ pre = [modelState |-> Null, viewData |-> Null,
              option |-> undoSelectionHistoryOption]
    /\ pending = NoPending
    /\ commit = NoCommit
    /\ coalescing = "no"
    /\ since = Nothing

Init ==
    /\ InitEditModel
    /\ InitLifetime
    /\ InitFonts
    /\ InitKeys
    /\ InitRanges
    /\ InitKeyOrder
    /\ InitView

\* The EditModel and its Document's registry, with a short selection history.
Next ==
    \/ EnsureModelState /\ UNCHANGED <<history, elsewhere>>
    \/ \E o \in Options : ChangeUndoSelectionHistory(o) /\ UNCHANGED <<history, elsewhere>>
    \/ \E e \in {Null, Foreign} : HostSetViewState(e) /\ UNCHANGED <<history, elsewhere>>
    \/ HostRegisterModelState /\ UNCHANGED <<history, elsewhere>>
    \/ \E m \in DOMAIN objects, s \in Selections :
           CallRememberSelectionForUndo(m, 0, s) /\ UNCHANGED <<history, elsewhere>>
    \/ \E m \in DOMAIN objects, t \in TopLines :
           CallRememberSelectionOntoStack(m, 1, t) /\ UNCHANGED <<history, elsewhere>>
    \/ \E m \in DOMAIN objects, h \in Directions :
           CallSelectionFromStack(m, 1, h) /\ UNCHANGED <<history, elsewhere>>

Spec == Init /\ [][Next]_vars

\* A view with undo-selection-history enabled: every ModelState operation,
\* called through the EditModel's modelState, on a view scrolled to one line.
InitHistory == Init /\ undoSelectionHistoryOption = "Enabled"

NextHistory ==
    \/ EnsureModelState /\ UNCHANGED <<history, elsewhere>>
    \/ \E i \in UndoIndices, s \in Selections :
           CallRememberSelectionForUndo(modelState, i, s) /\ UNCHANGED <<history, elsewhere>>
    \/ CallForgetSelectionForUndo(modelState) /\ UNCHANGED <<history, elsewhere>>
    \/ \E i \in StackIndices, t \in ScrolledLines :
           CallRememberSelectionOntoStack(modelState, i, t) /\ UNCHANGED <<history, elsewhere>>
    \/ \E i \in StackIndices, s \in Selections, t \in ScrolledLines :
           CallRememberSelectionForRedoOntoStack(modelState, i, s, t) /\ UNCHANGED <<history, elsewhere>>
    \/ \E i \in StackIndices, h \in Directions :
           CallSelectionFromStack(modelState, i, h) /\ UNCHANGED <<history, elsewhere>>
    \/ \E i \in StackIndices : CallTruncateUndo(modelState, i) /\ UNCHANGED <<history, elsewhere>>

SpecHistory == InitHistory /\ [][NextHistory]_vars

\* The undo side of the same view, with the history of its calls.
NextCoalesce ==
    \/ EnsureModelState /\ UNCHANGED <<history, elsewhere>>
    \/ \E i \in UndoIndices, s \in Selections :
           CallRememberSelectionForUndo(modelState, i, s) /\ NoteRemember(i, s) /\ UNCHANGED <<since, elsewhere>>
    \/ CallForgetSelectionForUndo(modelState) /\ NoteForget /\ UNCHANGED <<since, elsewhere>>
    \/ \E i \in StackIndices, t \in TopLines :
           CallRememberSelectionOntoStack(modelState, i, t) /\ NoteOntoStack(i, t) /\ UNCHANGED <<since, elsewhere>>
    \/ \E i \in StackIndices :
           CallSelectionFromStack(modelState, i, "undo") /\ UNCHANGED <<history, elsewhere>>
    \/ \E i \in StackIndices : CallTruncateUndo(modelState, i) /\ NoteTruncate(i) /\ UNCHANGED <<since, elsewhere>>

SpecCoalesce == InitHistory /\ [][NextCoalesce]_vars

\* The calls that set, replace, commit and outlive the pending snapshot.
NextPending ==
    \/ EnsureModelState /\ UNCHANGED <<history, elsewhere>>
    \/ \E i \in UndoIndices, s \in Selections :
           CallRememberSelectionForUndo(modelState, i, s) /\ NoteRemember(i, s)
             /\ SinceRemember /\ UNCHANGED elsewhere
    \/ CallForgetSelectionForUndo(modelState) /\ NoteForget
         /\ SinceForget /\ UNCHANGED elsewhere
    \/ \E i \in StackIndices, t \in TopLines :
           CallRememberSelectionOntoStack(modelState, i, t) /\ NoteOntoStack(i, t)
             /\ SinceOntoStack(i) /\ UNCHANGED elsewhere
    \/ \E i \in StackIndices : CallTruncateUndo(modelState, i) /\ NoteTruncate(i)
         /\ SinceTruncate /\ UNCHANGED elsewhere

SpecPending == InitHistory /\ [][NextPending]_vars

\* The EditModel's own calls: the option is changed, the ModelState is ensured
\* and used; the registry may hold a ModelState before the first of them.
NextRegistry ==
    \/ EnsureModelState /\ UNCHANGED <<history, elsewhere>>
    \/ \E o \in Options : ChangeUndoSelectionHistory(o) /\ UNCHANGED <<history, elsewhere>>
    \/ (lastOp = "none" /\ HostRegisterModelState) /\ UNCHANGED <<history, elsewhere>>
    \/ \E i \in UndoIndices, s \in Selections :
           CallRememberSelectionForUndo(modelState, i, s) /\ UNCHANGED <<history, elsewhere>>
    \/ \E i \in StackIndices, t \in ScrolledLines :
           CallRememberSelectionOntoStack(modelState, i, t) /\ UNCHANGED <<history, elsewhere>>
    \/ \E i \in StackIndices :
           CallSelectionFromStack(modelState, i, "undo") /\ UNCHANGED <<history, elsewhere>>

SpecRegistry == Init /\ [][NextRegistry]_vars

\* The EditModel from construction to destruction, with its Document.
NextLifetime ==
    \/ alive /\ EnsureModelState
          /\ UNCHANGED <<history, lifetime, fonts, keys, values>>
    \/ \E o \in Options : alive /\ ChangeUndoSelectionHistory(o)
          /\ UNCHANGED <<history, lifetime, fonts, keys, values>>
    \/ alive /\ HostSetViewState(Foreign)
          /\ UNCHANGED <<history, lifetime, fonts, keys, values>>
    \/ HostAddRef /\ UNCHANGED <<history, fonts, keys, values>>
    \/ HostRelease /\ UNCHANGED <<history, fonts, keys, values>>
    \/ \E b \in Bidirectionals : SetBidirectional(b) /\ UNCHANGED <<history, fonts, keys, values>>
    \/ \E cp \in CodePages : SetDBCSCodePage(cp) /\ UNCHANGED <<history, fonts, keys, values>>
    \/ \E failSetViewState \in BOOLEAN, entryErased \in BOOLEAN, failRelease \in BOOLEAN :
           Destroy(failSetViewState, entryErased, failRelease)
             /\ UNCHANGED <<history, fonts, keys, values>>

SpecLifetime == Init /\ [][NextLifetime]_vars

\* Two EditModels on one Document, which each of them references: the calls
\* of this one, its destruction included, and the calls of the other.
InitViews ==
    /\ objects = [id \in {} |-> NewModelState]
    /\ modelState = Null
    /\ viewData = [v \in Views |-> Null]
    /\ undoSelectionHistoryOption \in Options
    /\ lastOp = "none"
    /\ result = EmptySelectionWithScroll
    /\ pre = [modelState |-> Null, viewData |-> Null,
              option |-> undoSelectionHistoryOption]
    /\ pending = NoPending
    /\ commit = NoCommit
    /\ coalescing = "no"
    /\ since = Nothing
    /\ alive = TRUE
    /\ pdoc = TheDocument
    /\ document = AddRef(EditModelDocument)
    /\ hostRefs = 1
    /\ bidirectional = "Disabled"
    /\ teardown = <<>>
    /\ completion = "none"
    /\ InitFonts
    /\ InitKeys
    /\ InitRanges
    /\ InitKeyOrder
    /\ InitView

NextViews ==
    \/ alive /\ EnsureModelState /\ UNCHANGED <<history, elsewhere>>
    \/ \E o \in Options : alive /\ ChangeUndoSelectionHistory(o)
          /\ UNCHANGED <<history, elsewhere>>
    \/ \E failSetViewState \in BOOLEAN, entryErased \in BOOLEAN, failRelease \in BOOLEAN :
           Destroy(failSetViewState, entryErased, failRelease)
             /\ UNCHANGED <<history, fonts, keys, values>>
    \/ \E s \in Selections :
           CallRememberSelectionForUndo(modelState, 0, s) /\ UNCHANGED <<history, elsewhere>>
    \/ \E t \in ScrolledLines :
           CallRememberSelectionOntoStack(modelState, 1, t) /\ UNCHANGED <<history, elsewhere>>
    \/ OtherEnsureModelState /\ UNCHANGED <<history, elsewhere>>
    \/ OtherDisableHistory /\ UNCHANGED <<history, elsewhere>>
    \/ \E s \in Selections :
           CallRememberSelectionForUndo(OtherId, 0, s) /\ UNCHANGED <<history, elsewhere>>
    \/ \E t \in ScrolledLines :
           CallRememberSelectionOntoStack(OtherId, 1, t) /\ UNCHANGED <<history, elsewhere>>

SpecViews == InitViews /\ [][NextViews]_vars

\* Two FontSpecifications, compared.
InitFont ==
    /\ InitEditModel
    /\ InitLifetime
    /\ InitKeys
    /\ InitRanges
    /\ InitKeyOrder
    /\ InitView
    /\ fsA \in FontSpecifications
    /\ fsB \in FontSpecifications
    /\ ordering = NotCompared

NextFont ==
    CompareFonts /\ UNCHANGED <<state, observed, history, lifetime, keys, values>>

SpecFont == InitFont /\ [][NextFont]_vars

\* A KeyMap after construction.
NextKeyMap ==
    \/ CallClear /\ UNCHANGED <<state, observed, history, lifetime, fonts, values>>
    \/ \E k \in KeyCodes, m \in KeyMods, c \in Messages :
           CallAssignCmdKey(k, m, c) /\ UNCHANGED <<state, observed, history, lifetime, fonts, values>>
    \/ \E k \in KeyCodes, m \in KeyMods :
           CallFind(k, m) /\ UNCHANGED <<state, observed, history, lifetime, fonts, values>>

SpecKeyMap == Init /\ [][NextKeyMap]_vars

\* A Range and a position, and the Range's member functions.
InitRange ==
    /\ InitEditModel
    /\ InitLifetime
    /\ InitFonts
    /\ InitKeys
    /\ InitKeyOrder
    /\ InitView
    /\ range \in Ranges
    /\ position \in Positions
    /\ rangeResult = NotCalled
    /\ rangeB = [start |-> 0, end |-> 0]
    /\ rangeC = [start |-> 0, end |-> 0]
    /\ rangeRelation = NotRelated

NextRange ==
    CallRange /\ UNCHANGED <<state, observed, history, lifetime, fonts, keys, keyOrder, viewStyle>>

SpecRange == InitRange /\ [][NextRange]_vars

\* Three Ranges, and the member functions that take a Range.
InitOverlap ==
    /\ InitEditModel
    /\ InitLifetime
    /\ InitFonts
    /\ InitKeys
    /\ InitKeyOrder
    /\ InitView
    /\ range \in Ranges
    /\ rangeB \in Ranges
    /\ rangeC \in Ranges
    /\ position = 0
    /\ rangeResult = NotCalled
    /\ rangeRelation = NotRelated

NextOverlap ==
    CallRelations /\ UNCHANGED <<state, observed, history, lifetime, fonts, keys, keyOrder, viewStyle>>

SpecOverlap == InitOverlap /\ [][NextOverlap]_vars

\* Three KeyModifiers, compared.
InitKeyModifiers ==
    /\ InitEditModel
    /\ InitLifetime
    /\ InitFonts
    /\ InitKeys
    /\ InitRanges
    /\ InitView
    /\ kA \in KeyModifiersSet
    /\ kB \in KeyModifiersSet
    /\ kC \in KeyModifiersSet
    /\ keyOrdering = NotOrdered

NextKeyModifiers ==
    CompareKeys /\ UNCHANGED <<state, observed, history, lifetime, fonts, keys, ranges, viewStyle>>

SpecKeyModifiers == InitKeyModifiers /\ [][NextKeyModifiers]_vars

\* A ViewStyle: its styles are changed and it is refreshed.
NextViewStyle ==
    \/ Refresh
         /\ UNCHANGED <<state, observed, history, lifetime, fonts, keys, ranges, keyOrder>>
    \/ \E i \in StyleIndices, fs \in StyleFonts : SetStyleFont(i, fs)
         /\ UNCHANGED <<state, observed, history, lifetime, fonts, keys, ranges, keyOrder>>
    \/ \E z \in ZoomLevels : SetZoom(z)
         /\ UNCHANGED <<state, observed, history, lifetime, fonts, keys, ranges, keyOrder>>

SpecViewStyle == InitHistory /\ [][NextViewStyle]_vars

\* The styles of a ViewStyle: their fonts and their protection are set.
NextStyle ==
    \/ \E i \in StyleIndices, fs \in StyleFonts : SetStyleFont(i, fs)
         /\ UNCHANGED <<state, observed, history, lifetime, fonts, keys, ranges, keyOrder>>
    \/ \E i \in StyleIndices, v \in BOOLEAN, c \in BOOLEAN : SetStyleProtection(i, v, c)
         /\ UNCHANGED <<state, observed, history, lifetime, fonts, keys, ranges, keyOrder>>

SpecStyle == InitHistory /\ [][NextStyle]_vars

\* ----------------------------------------------------------------- claims
UndoStack(objs) == objs[modelState].historyForUndo.stack
RedoStack(objs) == objs[modelState].historyForRedo.stack
Transient(objs) == objs[modelState].historyForUndo.indexCurrent
Attached == modelState \in DOMAIN objects

\* C1: after TruncateUndo(i) neither the undo nor the redo stack holds a key
\* at or after i, whether or not i itself is a key of the stack.
C1_TruncateLeavesNoKeyAtOrAfter ==
    [][\A i \in StackIndices :
         (lastOp' = "TruncateUndo" /\ CallTruncateUndo(modelState, i)) =>
           \A k \in (DOMAIN UndoStack(objects')) \cup (DOMAIN RedoStack(objects')) : k < i]_vars

\* C2: RememberSelectionOntoStack(commitIndex, topLine) with a commitIndex
\* other than the transient index plus one leaves the whole undo history,
\* every key and every stored value, as it was.
C2_MismatchedCommitLeavesUndoStack ==
    [][\A i \in StackIndices, t \in TopLines :
         (/\ lastOp' = "RememberSelectionOntoStack"
          /\ i # Transient(objects) + 1
          /\ CallRememberSelectionOntoStack(modelState, i, t)) =>
           objects'[modelState].historyForUndo = objects[modelState].historyForUndo]_vars

C2_Witness ==
    /\ Attached
    /\ lastOp = "RememberSelectionOntoStack"
    /\ Transient(objects) >= 0
    /\ DOMAIN UndoStack(objects) # {}
    /\ (Transient(objects) + 1) \notin DOMAIN UndoStack(objects)

\* C3: a selection s remembered for index i >= 0 and committed at i + 1 with
\* top line t is what SelectionFromStack(i + 1, undo) returns, as long as no
\* TruncateUndo at or below i + 1 has come between.
C3_RoundTrip ==
    [][\A j \in StackIndices :
         (/\ lastOp' = "SelectionFromStack"
          /\ commit.kind = "committed"
          /\ commit.index = j
          /\ CallSelectionFromStack(modelState, j, "undo")) =>
           result' = [selection |-> SelectionToString(commit.sel), topLine |-> commit.topLine]]_vars

C3_Witness ==
    /\ Attached
    /\ lastOp = "SelectionFromStack"
    /\ commit.kind = "committed"
    /\ commit.topLine # 0
    /\ result = [selection |-> SelectionToString(commit.sel), topLine |-> commit.topLine]

\* What a RememberSelectionOntoStack(j, t) call may do once the pending
\* selection has been committed at i + 1 and no RememberSelectionForUndo has
\* followed: create no entry but at i + 1, and keep the selection at i + 1.
CoalescedCommit(j, t) ==
    /\ coalescing # "no"
    /\ lastOp' = "RememberSelectionOntoStack"
    /\ CallRememberSelectionOntoStack(modelState, j, t)

KeepsFirstSelection ==
    /\ (DOMAIN UndoStack(objects')) \ (DOMAIN UndoStack(objects)) \subseteq {pending.index + 1}
    /\ (pending.index + 1) \in DOMAIN UndoStack(objects')
    /\ UndoStack(objects')[pending.index + 1].selection = SelectionToString(pending.sel)

\* C4 as stated: coalesced commits create no entry at j # i + 1 and keep the
\* selection at i + 1, and SelectionFromStack(j, undo) is empty for such j.
C4_CoalescedIndexEmpty ==
    [][\A j \in StackIndices, t \in TopLines :
         CoalescedCommit(j, t) =>
           /\ KeepsFirstSelection
           /\ (j # pending.index + 1 =>
                 SelectionFromStack(objects'[modelState], j, "undo") = EmptySelectionWithScroll)]_vars

\* C4 amended: coalesced commits create no entry at j # i + 1 and keep the
\* selection at i + 1; SelectionFromStack(j, undo) for such j returns what it
\* returned before the call, which is the empty result when j held no entry.
C4_CoalescedCommitsKeepStack ==
    [][\A j \in StackIndices, t \in TopLines :
         CoalescedCommit(j, t) =>
           /\ KeepsFirstSelection
           /\ (j # pending.index + 1 =>
                 /\ SelectionFromStack(objects'[modelState], j, "undo")
                      = SelectionFromStack(objects[modelState], j, "undo")
                 /\ (j \notin DOMAIN UndoStack(objects) =>
                       SelectionFromStack(objects'[modelState], j, "undo")
                         = EmptySelectionWithScroll))]_vars

C4_Witness ==
    /\ Attached
    /\ coalescing = "later"
    /\ lastOp = "RememberSelectionOntoStack"
    /\ \E j \in StackIndices : j # pending.index + 1 /\ j \notin DOMAIN UndoStack(objects)
    /\ \E j \in DOMAIN UndoStack(objects) : j # pending.index + 1

\* C5: between ForgetSelectionForUndo() and the next RememberSelectionForUndo
\* no RememberSelectionOntoStack call, whatever its index, changes the undo
\* stack; ForgetSelectionForUndo changes no entry of either stack.
C5_ForgottenNeverCommits ==
    [][/\ (pending.kind = "forgotten" /\ lastOp' = "RememberSelectionOntoStack") =>
            UndoStack(objects') = UndoStack(objects)
       /\ lastOp' = "ForgetSelectionForUndo" =>
            /\ UndoStack(objects') = UndoStack(objects)
            /\ RedoStack(objects') = RedoStack(objects)]_vars

C5_Witness ==
    /\ Attached
    /\ pending.kind = "forgotten"
    /\ lastOp = "RememberSelectionOntoStack"
    /\ DOMAIN UndoStack(objects) # {}

\* C6: SelectionFromStack(index, direction) returns the entry at index of
\* the requested stack alone, the empty result when that stack has no such
\* entry, and changes neither stack nor the transient snapshot.
C6_SelectionFromStackReads ==
    [][\A i \in StackIndices, h \in Directions :
         (lastOp' = "SelectionFromStack" /\ CallSelectionFromStack(modelState, i, h)) =>
           LET stack == IF h = "undo" THEN UndoStack(objects) ELSE RedoStack(objects)
           IN  /\ i \in DOMAIN stack => result' = stack[i]
               /\ i \notin DOMAIN stack => result' = EmptySelectionWithScroll
               /\ objects' = objects]_vars

C6_Witness ==
    /\ Attached
    /\ lastOp = "SelectionFromStack"
    /\ \E i \in DOMAIN RedoStack(objects) :
         /\ i \in DOMAIN UndoStack(objects)
         /\ RedoStack(objects)[i] # UndoStack(objects)[i]
         /\ result = RedoStack(objects)[i]

\* C7: RememberSelectionForRedoOntoStack(index, sel, topLine) sets the redo
\* entry at index to (sel, topLine), whether or not one was there, and leaves
\* every other redo entry and the whole undo history unchanged.
C7_RedoAlwaysWrites ==
    [][\A i \in StackIndices, s \in Selections, t \in ScrolledLines :
         (/\ lastOp' = "RememberSelectionForRedoOntoStack"
          /\ CallRememberSelectionForRedoOntoStack(modelState, i, s, t)) =>
           /\ DOMAIN RedoStack(objects') = (DOMAIN RedoStack(objects)) \cup {i}
           /\ RedoStack(objects')[i] = [selection |-> SelectionToString(s), topLine |-> t]
           /\ \A k \in (DOMAIN RedoStack(objects)) \ {i} :
                RedoStack(objects')[k] = RedoStack(objects)[k]
           /\ objects'[modelState].historyForUndo = objects[modelState].historyForUndo]_vars

C7_Witness ==
    /\ Attached
    /\ lastOp = "RememberSelectionForRedoOntoStack"
    /\ Cardinality(DOMAIN RedoStack(objects)) = 1
    /\ DOMAIN UndoStack(objects) # {}
    /\ Transient(objects) + 1 \notin DOMAIN RedoStack(objects)

\* C8: EnsureModelState() with the history enabled, no ModelState attached and
\* a registry entry of another kind under this view attaches a newly
\* constructed ModelState and registers it under this view.
C8_ForeignEntryTreatedAsAbsent ==
    (/\ lastOp = "EnsureModelState"
     /\ undoSelectionHistoryOption # "Disabled"
     /\ pre.modelState = Null
     /\ pre.viewData = Foreign)
    => (/\ modelState \in DOMAIN objects
        /\ viewData[View] = modelState)

\* C9: EnsureModelState() with the history enabled and no ModelState attached
\* adopts the ModelState the registry holds under this view, with every entry
\* of its stacks, creating and registering none; with no entry in the
\* registry it creates one empty ModelState and registers it.
C9_AdoptsOrCreates ==
    [][(/\ lastOp' = "EnsureModelState"
        /\ undoSelectionHistoryOption # "Disabled"
        /\ modelState = Null) =>
         /\ viewData[View] \in ObjectIds =>
              /\ modelState' = viewData[View]
              /\ viewData' = viewData
              /\ objects' = objects
         /\ viewData[View] = Null =>
              /\ modelState' \in ObjectIds
              /\ viewData'[View] = modelState'
              /\ DOMAIN objects' = {modelState'}
              /\ DOMAIN objects'[modelState'].historyForUndo.stack = {}
              /\ DOMAIN objects'[modelState'].historyForRedo.stack = {}]_vars

C9_Witness ==
    /\ lastOp = "EnsureModelState"
    /\ pre.modelState = Null
    /\ pre.viewData \in ObjectIds
    /\ modelState = pre.viewData
    /\ viewData[View] = modelState
    /\ DOMAIN UndoStack(objects) # {}

\* C10: EnsureModelState() changes nothing when the history option is
\* Disabled or a ModelState is attached, and a call that follows another
\* EnsureModelState() call changes nothing.
C10_EnsureIsNoOp ==
    [][/\ (lastOp' = "EnsureModelState"
             /\ (undoSelectionHistoryOption = "Disabled" \/ modelState # Null)) =>
            UNCHANGED state
       /\ (lastOp = "EnsureModelState" /\ lastOp' = "EnsureModelState") =>
            UNCHANGED state]_vars

C10_Witness ==
    /\ lastOp = "EnsureModelState"
    /\ pre.modelState \in ObjectIds
    /\ modelState = pre.modelState
    /\ DOMAIN UndoStack(objects) # {}

\* C11: ChangeUndoSelectionHistory(Disabled) detaches the ModelState and
\* clears this view's registry entry, so the ModelState and its snapshots are
\* gone; EnsureModelState() after re-enabling attaches a ModelState with empty
\* undo and redo stacks; ChangeUndoSelectionHistory to an enabled mode creates
\* no ModelState and no registry entry.
C11_DisableDropsHistory ==
    [][/\ (lastOp' = "ChangeUndoSelectionHistory"
             /\ undoSelectionHistoryOption' = "Disabled") =>
            /\ modelState' = Null
            /\ viewData'[View] = Null
            /\ DOMAIN objects' = {}
       /\ (lastOp' = "ChangeUndoSelectionHistory"
             /\ undoSelectionHistoryOption' # "Disabled") =>
            UNCHANGED <<objects, modelState, viewData>>
       /\ (/\ lastOp = "ChangeUndoSelectionHistory"
           /\ pre.option = "Disabled"
           /\ pre.modelState = Null
           /\ pre.viewData = Null
           /\ undoSelectionHistoryOption # "Disabled"
           /\ lastOp' = "EnsureModelState") =>
            /\ modelState' \in DOMAIN objects'
            /\ DOMAIN objects'[modelState'].historyForUndo.stack = {}
            /\ DOMAIN objects'[modelState'].historyForRedo.stack = {}]_vars

C11_Witness ==
    /\ lastOp = "ChangeUndoSelectionHistory"
    /\ undoSelectionHistoryOption = "Disabled"
    /\ pre.modelState \in ObjectIds
    /\ pre.viewData = pre.modelState
    /\ pre.option # "Disabled"

\* C16: while the undo-selection-history option is Disabled no ModelState is
\* attached to the EditModel.
C16_DisabledHasNoModelState ==
    undoSelectionHistoryOption = "Disabled" => modelState = Null

C16_Witness ==
    /\ lastOp = "ChangeUndoSelectionHistory"
    /\ undoSelectionHistoryOption = "Disabled"
    /\ pre.modelState \in ObjectIds
    /\ pre.viewData = Foreign

Releases == {i \in 1..Len(teardown) : teardown[i].call = "Release"}
Deregistrations == {i \in 1..Len(teardown) : teardown[i].call = "SetViewState"}

C13_ReleasedExactlyOnce ==
    ~alive => Cardinality(Releases) = 1

\* C14: ~EditModel completes normally whatever erasing the entry or releasing
\* the Document throws.
C14_DestructorCompletes ==
    ~alive => completion = "normal"

C14_Witness ==
    /\ ~alive
    /\ Threw(teardown)
    /\ completion = "normal"

\* C15: while the EditModel is alive its document reference is not null and
\* counts for exactly one of the Document's references; construction creates
\* a Document referenced once; the Document exists exactly while its reference
\* count is positive, so never goes while the EditModel is alive.
C15_DocumentReference ==
    /\ alive =>
         /\ pdoc = TheDocument
         /\ document.live
         /\ document.refCount = hostRefs + 1
    /\ lastOp = "none" => document.refCount = 1
    /\ document.live <=> document.refCount > 0

C15_Witness ==
    /\ alive
    /\ lastOp = "Release"
    /\ hostRefs > 0

\* C20: BidirectionalEnabled() is true exactly when the bidirectional mode is
\* not Disabled and the document's code page is UTF-8 (65001); it is false for
\* every other code page, and false after construction.
C20_BidirectionalEnabled ==
    alive =>
      /\ BidirectionalEnabled <=>
           (bidirectional \in {"L2R", "R2L"} /\ document.dbcsCodePage = 65001)
      /\ document.dbcsCodePage # 65001 => ~BidirectionalEnabled
      /\ lastOp = "none" => ~BidirectionalEnabled

C20_Witness ==
    /\ alive
    /\ bidirectional = "R2L"
    /\ document.dbcsCodePage = 65001
    /\ BidirectionalEnabled

\* The fields in the order of their precedence.
FieldOrder ==
    <<"fontName", "weight", "italic", "size", "stretch", "characterSet",
      "extraFontFlag", "checkMonospaced">>

Differing(a, b) == {i \in 1..Len(FieldOrder) : a[FieldOrder[i]] # b[FieldOrder[i]]}
FirstDiffering(a, b) == CHOOSE i \in Differing(a, b) : \A j \in Differing(a, b) : i <= j

\* a is less than b by the first differing field; italicFirst says which of
\* italic and non-italic is the lesser.
Precedes(a, b, italicFirst) ==
    /\ Differing(a, b) # {}
    /\ LET field == FieldOrder[FirstDiffering(a, b)]
       IN  IF field = "italic"
           THEN IF italicFirst THEN a.italic ELSE ~a.italic
           ELSE IF field = "checkMonospaced"
           THEN ~a.checkMonospaced
           ELSE a[field] < b[field]

\* C17 as stated: operator< decides by the first differing field of name,
\* weight, italic, size, stretch, character set, quality flag,
\* monospace-check flag, and of two specifications that first differ in
\* italic the non-italic one sorts after the italic one.
C17_NonItalicSortsAfter ==
    ordering.compared =>
      /\ ordering.less = Precedes(fsA, fsB, TRUE)
      /\ ordering.greater = Precedes(fsB, fsA, TRUE)

\* C17: operator< decides by the first differing field of name, weight,
\* italic, size, stretch, character set, quality flag, monospace-check flag,
\* and of two specifications that first differ in italic the non-italic one
\* sorts before the italic one.
C17_NonItalicSortsBefore ==
    ordering.compared =>
      /\ ordering.less = Precedes(fsA, fsB, FALSE)
      /\ ordering.greater = Precedes(fsB, fsA, FALSE)

C17_Witness ==
    /\ ordering.compared
    /\ fsA.fontName = fsB.fontName
    /\ fsA.weight = fsB.weight
    /\ ~fsA.italic
    /\ fsB.italic
    /\ fsA.size > fsB.size
    /\ ordering.less
    /\ ~ordering.greater

\* C18: for every pair exactly one of a < b, a == b, b < a holds, == is
\* equality of all eight fields, and < is irreflexive and transitive.
C18_StrictWeakOrder ==
    ordering.compared =>
      /\ \/ (ordering.less /\ ~ordering.equal /\ ~ordering.greater)
         \/ (~ordering.less /\ ordering.equal /\ ~ordering.greater)
         \/ (~ordering.less /\ ~ordering.equal /\ ordering.greater)
      /\ ordering.equal <=> (fsA = fsB)
      /\ ~FontLess(fsA, fsA)
      /\ \A c \in FontSpecifications :
           (ordering.less /\ FontLess(fsB, c)) => FontLess(fsA, c)

C18_Witness ==
    /\ ordering.compared
    /\ ordering.greater
    /\ fsA.italic
    /\ ~fsB.italic
    /\ \E c \in FontSpecifications : FontLess(fsA, c)

\* C19: after Clear() Find is 0 for every key and modifiers; after
\* AssignCmdKey(K, M, C) Find(K, M) is C and Find of every other key and
\* modifiers is what it was; Find changes no binding and returns the binding.
C19_FindReturnsLastAssigned ==
    [][/\ keyCall'.op = "Clear" =>
            \A k \in KeyCodes, m \in KeyMods : Find(kmap', k, m) = 0
       /\ keyCall'.op = "AssignCmdKey" =>
            \A k \in KeyCodes, m \in KeyMods :
              Find(kmap', k, m) =
                IF k = keyCall'.key /\ m = keyCall'.modifiers
                THEN keyCall'.msg
                ELSE Find(kmap, k, m)
       /\ keyCall'.op = "Find" =>
            /\ keyCall'.returned = Find(kmap, keyCall'.key, keyCall'.modifiers)
            /\ \A k \in KeyCodes, m \in KeyMods : Find(kmap', k, m) = Find(kmap, k, m)]_vars

C19_Witness ==
    /\ keyCall.op = "AssignCmdKey"
    /\ \E m \in KeyMods :
         /\ m # keyCall.modifiers
         /\ Find(kmap, keyCall.key, m) \notin {0, keyCall.msg}
    /\ Find(kmap, keyCall.key, keyCall.modifiers) = keyCall.msg

\* C21: Contains(pos) holds exactly when pos is between the lesser and the
\* greater end of the range, both included, and ContainsCharacter(pos) exactly
\* when pos is at or after the lesser and before the greater end; a non-empty
\* range contains its First() and Last(), its Last() is no character of it,
\* and an empty range has no character.
C21_ContainsBetweenEnds ==
    rangeResult.called =>
      LET lesser == IF range.start < range.end THEN range.start ELSE range.end
          greater == IF range.start < range.end THEN range.end ELSE range.start
      IN  /\ rangeResult.first = lesser
          /\ rangeResult.last = greater
          /\ rangeResult.contains <=> (lesser <= position /\ position <= greater)
          /\ rangeResult.containsCharacter <=> (lesser <= position /\ position < greater)
          /\ ~rangeResult.empty =>
               /\ Contains(range, rangeResult.first)
               /\ Contains(range, rangeResult.last)
               /\ ~ContainsCharacter(range, rangeResult.last)
          /\ rangeResult.empty => \A pos \in Positions : ~ContainsCharacter(range, pos)

C21_Witness ==
    /\ rangeResult.called
    /\ range.start > range.end
    /\ position = range.start
    /\ rangeResult.contains
    /\ ~rangeResult.containsCharacter

\* C22: Length() of Range(a, b) is that of Range(b, a), is Last() - First(),
\* is not negative, and is 0 exactly when Empty() holds.
C22_LengthIgnoresDirection ==
    rangeResult.called =>
      /\ rangeResult.length = Length([start |-> range.end, end |-> range.start])
      /\ rangeResult.length = rangeResult.last - rangeResult.first
      /\ rangeResult.length >= 0
      /\ (rangeResult.length = 0) <=> rangeResult.empty

C22_Witness ==
    /\ rangeResult.called
    /\ range.start > range.end
    /\ rangeResult.length > 0
    /\ ~rangeResult.empty

\* C26: KeyModifiers operator< orders by key, and by modifiers when the keys
\* are equal; it is irreflexive and transitive, and two KeyModifiers are
\* equivalent under it exactly when key and modifiers are both equal.
C26_KeyThenModifiers ==
    keyOrdering.compared =>
      /\ keyOrdering.ab <=>
           (kA.key < kB.key \/ (kA.key = kB.key /\ kA.modifiers < kB.modifiers))
      /\ ~KeyModifiersLess(kA, kA)
      /\ (keyOrdering.ab /\ keyOrdering.bc) => keyOrdering.ac
      /\ ~(keyOrdering.ab /\ keyOrdering.ba)
      /\ (~keyOrdering.ab /\ ~keyOrdering.ba) <=>
           (kA.key = kB.key /\ kA.modifiers = kB.modifiers)

C26_Witness ==
    /\ keyOrdering.compared
    /\ kA.key < kB.key
    /\ kA.modifiers > kB.modifiers
    /\ keyOrdering.ab
    /\ keyOrdering.bc
    /\ keyOrdering.ac

\* C23: IsProtected() is true for a style that is not changeable, not
\* visible, or neither, and false for a style that is changeable and visible;
\* a default-constructed Style is not protected.
C23_ProtectedUnlessChangeableAndVisible ==
    /\ \A i \in StyleIndices :
         /\ (~styles[i].changeable /\ styles[i].visible) => IsProtected(styles[i])
         /\ (styles[i].changeable /\ ~styles[i].visible) => IsProtected(styles[i])
         /\ (~styles[i].changeable /\ ~styles[i].visible) => IsProtected(styles[i])
         /\ (styles[i].changeable /\ styles[i].visible) => ~IsProtected(styles[i])
    /\ ~IsProtected(DefaultStyle)

C23_Witness ==
    /\ ~styles[1].changeable /\ styles[1].visible /\ IsProtected(styles[1])
    /\ styles[2].changeable /\ ~styles[2].visible /\ IsProtected(styles[2])

\* C24: a Refresh that follows a Refresh with the styles and the zoom
\* unchanged leaves the font cache, every style's measurements and the
\* aggregate metrics as they were; after a Refresh the cache holds one
\* realised font for each FontSpecification of a style and no two for the same.
C24_RefreshIdempotent ==
    [][(refreshCount' = refreshCount + 1) =>
         /\ \A i, j \in 1..Len(fontMap') : fontMap'[i].fs = fontMap'[j].fs => i = j
         /\ \A i \in StyleIndices : \E j \in 1..Len(fontMap') : fontMap'[j].fs = styles'[i].fs
         /\ (refreshCount >= 1) => UNCHANGED <<fontMap, styles, metrics>>]_vars

C24_Witness ==
    /\ refreshCount = 2
    /\ Len(fontMap) > 2
    /\ zoomLevel # 0
    /\ styles[1].fs # styles[2].fs

\* C25: TruncateUndo(i) keeps every entry with a key before i, with its
\* value, on the undo stack and on the redo stack.
C25_TruncateKeepsEarlierEntries ==
    [][\A i \in StackIndices :
         (lastOp' = "TruncateUndo" /\ CallTruncateUndo(modelState, i)) =>
           /\ \A k \in DOMAIN UndoStack(objects) :
                k < i => (k \in DOMAIN UndoStack(objects')
                            /\ UndoStack(objects')[k] = UndoStack(objects)[k])
           /\ \A k \in DOMAIN RedoStack(objects) :
                k < i => (k \in DOMAIN RedoStack(objects')
                            /\ RedoStack(objects')[k] = RedoStack(objects)[k])]_vars

C25_Witness ==
    /\ Attached
    /\ lastOp = "TruncateUndo"
    /\ DOMAIN UndoStack(objects) = {1}
    /\ DOMAIN RedoStack(objects) = {0}

\* The snapshot RememberSelectionForUndo recorded at a transaction index is
\* pending.
SnapshotPending == pending.kind = "remembered" /\ pending.index >= 0

Committed(objs, sel, topLine) ==
    /\ (pending.index + 1) \in DOMAIN UndoStack(objs)
    /\ UndoStack(objs)[pending.index + 1] =
         [selection |-> SelectionToString(sel), topLine |-> topLine]

\* C27: TruncateUndo changes neither indexCurrent nor the pending selection,
\* and a RememberSelectionOntoStack(i + 1, t) that follows TruncateUndo calls
\* made after RememberSelectionForUndo(i, s) commits (s, t) at i + 1.
C27_TruncateKeepsPending ==
    [][/\ lastOp' = "TruncateUndo" =>
            /\ Transient(objects') = Transient(objects)
            /\ objects'[modelState].historyForUndo.ssCurrent
                 = objects[modelState].historyForUndo.ssCurrent
       /\ \A t \in TopLines :
            (/\ lastOp' = "RememberSelectionOntoStack"
             /\ SnapshotPending
             /\ since.truncated
             /\ CallRememberSelectionOntoStack(modelState, pending.index + 1, t)) =>
              Committed(objects', pending.sel, t)]_vars

C27_Witness ==
    /\ lastOp = "RememberSelectionOntoStack"
    /\ SnapshotPending
    /\ since.truncated
    /\ since.commits = 1
    /\ Committed(objects, pending.sel, commit.topLine)

\* C28: a commit leaves the snapshot pending: a RememberSelectionOntoStack(i + 1, t2)
\* that follows a commit of RememberSelectionForUndo(i, s) at i + 1, with no
\* RememberSelectionForUndo or ForgetSelectionForUndo between, stores (s, t2)
\* at i + 1.
C28_CommitKeepsSnapshotPending ==
    [][\A t2 \in TopLines :
         (/\ lastOp' = "RememberSelectionOntoStack"
          /\ SnapshotPending
          /\ since.commits >= 1
          /\ CallRememberSelectionOntoStack(modelState, pending.index + 1, t2)) =>
           /\ Committed(objects', pending.sel, t2)
           /\ Transient(objects') = pending.index]_vars

C28_Witness ==
    /\ lastOp = "RememberSelectionOntoStack"
    /\ SnapshotPending
    /\ since.commits = 2
    /\ commit.topLine # 0
    /\ Committed(objects, pending.sel, commit.topLine)

\* C29: RememberSelectionForUndo changes neither stack; after
\* RememberSelectionForUndo(i1, s1) and RememberSelectionForUndo(i2, s2),
\* RememberSelectionOntoStack(i2 + 1, t) stores (s2, t) and, when i1 # i2,
\* RememberSelectionOntoStack(i1 + 1, t) stores nothing.
C29_LatestSnapshotIsPending ==
    [][/\ lastOp' = "RememberSelectionForUndo" =>
            /\ UndoStack(objects') = UndoStack(objects)
            /\ RedoStack(objects') = RedoStack(objects)
       /\ \A j \in {pending.index + 1, since.superseded.index + 1} \cap StackIndices,
             t \in TopLines :
            (/\ lastOp' = "RememberSelectionOntoStack"
             /\ pending.kind = "remembered"
             /\ since.superseded.kind = "remembered"
             /\ CallRememberSelectionOntoStack(modelState, j, t)) =>
              /\ (pending.index >= 0 /\ j = pending.index + 1) =>
                   Committed(objects', pending.sel, t)
              /\ (j = since.superseded.index + 1 /\ since.superseded.index # pending.index) =>
                   UndoStack(objects') = UndoStack(objects)]_vars

C29_Witness ==
    /\ lastOp = "RememberSelectionOntoStack"
    /\ SnapshotPending
    /\ since.superseded.kind = "remembered"
    /\ since.superseded.index >= 0
    /\ since.superseded.index # pending.index
    /\ since.superseded.sel # pending.sel
    /\ since.commits = 1
    /\ ~since.truncated
    /\ DOMAIN UndoStack(objects) = {pending.index + 1}
    /\ Committed(objects, pending.sel, commit.topLine)

\* C30: while a ModelState is attached to the EditModel the registry entry
\* under the EditModel's view is that ModelState, over every sequence of
\* EnsureModelState and ChangeUndoSelectionHistory calls, so a snapshot read
\* through the EditModel is the one read through the registry.
C30_AttachedIsRegistered ==
    (alive /\ modelState # Null) =>
      /\ modelState \in DOMAIN objects
      /\ GetViewState(View) = modelState
      /\ \A i \in StackIndices :
           SelectionFromStack(objects[GetViewState(View)], i, "undo")
             = SelectionFromStack(objects[modelState], i, "undo")

C30_Witness ==
    /\ Attached
    /\ GetViewState(View) = modelState
    /\ pre.option # undoSelectionHistoryOption
    /\ lastOp = "ChangeUndoSelectionHistory"
    /\ DOMAIN UndoStack(objects) # {}

\* C33: for Ranges a and b stored in either direction, Overlaps gives the same
\* answer both ways round and holds exactly when the closed intervals meet,
\* touching at one end included; a.Contains(b) holds exactly when b's interval
\* lies within a's, every Range contains itself, and Contains is transitive.
C33_OverlapsAndContains ==
    rangeRelation.called =>
      LET lo(r) == IF r.start < r.end THEN r.start ELSE r.end
          hi(r) == IF r.start < r.end THEN r.end ELSE r.start
      IN  /\ rangeRelation.overlapsAB = rangeRelation.overlapsBA
          /\ rangeRelation.overlapsAB <=>
               (lo(range) <= hi(rangeB) /\ lo(rangeB) <= hi(range))
          /\ rangeRelation.containsAB <=>
               (lo(range) <= lo(rangeB) /\ hi(rangeB) <= hi(range))
          /\ rangeRelation.containsAA
          /\ (rangeRelation.containsAB /\ rangeRelation.containsBC)
               => rangeRelation.containsAC

C33_Witness ==
    /\ rangeRelation.called
    /\ range.start < range.end
    /\ rangeB.start > rangeB.end
    /\ rangeB.end < range.start
    /\ range.end < rangeB.start
    /\ rangeRelation.overlapsBA
    /\ ~rangeRelation.containsAB
    /\ rangeRelation.containsBC
    /\ rangeC.start < rangeC.end
    /\ rangeC.start = rangeB.start - 1

\* C32: ChangeUndoSelectionHistory from one mode other than Disabled to
\* another keeps the attached ModelState, its registry entry and every undo
\* and redo snapshot as they were; a ChangeUndoSelectionHistory call that
\* changes any of them is a switch to Disabled, and it leaves none of them.
C32_ModeSwitchKeepsHistory ==
    [][lastOp' = "ChangeUndoSelectionHistory" =>
         /\ (undoSelectionHistoryOption # "Disabled"
               /\ undoSelectionHistoryOption' # "Disabled") =>
              /\ modelState' = modelState
              /\ viewData'[View] = viewData[View]
              /\ DOMAIN objects' = DOMAIN objects
              /\ \A id \in DOMAIN objects :
                   /\ objects'[id].historyForUndo = objects[id].historyForUndo
                   /\ objects'[id].historyForRedo = objects[id].historyForRedo
         /\ (<<objects, modelState, viewData>>' # <<objects, modelState, viewData>>) =>
              /\ undoSelectionHistoryOption' = "Disabled"
              /\ modelState' = Null
              /\ viewData'[View] = Null
              /\ DOMAIN objects' = {}]_vars

C32_Witness ==
    /\ lastOp = "ChangeUndoSelectionHistory"
    /\ pre.option = "Enabled"
    /\ undoSelectionHistoryOption = "Scroll"
    /\ Attached
    /\ pre.modelState = modelState
    /\ pre.viewData = modelState
    /\ viewData[View] = modelState
    /\ DOMAIN UndoStack(objects) # {}
    /\ Transient(objects) >= 0

\* C31: EnsureModelState, ChangeUndoSelectionHistory and the destruction of
\* one EditModel leave the registry entry of every other view of the Document,
\* and the undo and redo history recorded for it, as they were, and never
\* attach another view's ModelState to this EditModel.
C31_OtherViewsUntouched ==
    [][lastOp' \in {"EnsureModelState", "ChangeUndoSelectionHistory", "~EditModel"} =>
         \A v \in (DOMAIN viewData) \ {View} :
           /\ viewData'[v] = viewData[v]
           /\ viewData[v] # Null =>
                /\ viewData[v] \in DOMAIN objects'
                /\ objects'[viewData[v]] = objects[viewData[v]]
                /\ modelState' # viewData[v]]_vars

C31_Witness ==
    /\ lastOp = "~EditModel"
    /\ pre.modelState \in ObjectIds
    /\ pre.viewData = pre.modelState
    /\ viewData[View] = Null
    /\ viewData[OtherView] = OtherId
    /\ DOMAIN objects = {OtherId}
    /\ DOMAIN objects[OtherId].historyForUndo.stack # {}

====
